---- MODULE Spec2Model ----
(***************************************************************************)
(* Model of src/app.py: the call-audit dashboard script.                   *)
(*   load_data  -> sidebar selection -> filters -> banner / KPI cards      *)
(*              -> trend chart -> demand heatmap                           *)
(* Text is modelled as a sequence of one-character strings so that         *)
(* str.lower / str.upper / str.slice are computed, not assumed.            *)
(***************************************************************************)
EXTENDS Integers, Sequences, FiniteSets, TLC

VARIABLES
    cols,           \* column names of the fetched sheet (DataFrame(data).columns)
    rows,           \* the fetched records, one function cols -> cell per row
    pc,             \* position of the script
    err,            \* "none", or the exception that stopped the script
    dfcols,         \* df.columns after load_data
    df,             \* df rows after load_data: <<[idx, v]>>
    range_choice,   \* sidebar selectbox
    clinics,        \* sidebar multiselect
    doctors,        \* sidebar multiselect
    q,              \* filtered rows
    kpi,            \* served_count, booked, recovered_revenue, net_roi, ...
    trend,          \* trend frame, <<[date, attempts, booked]>>
    heat            \* heat frame, <<[weekday, hour, attempts]>>

vars == <<cols, rows, pc, err, dfcols, df, range_choice, clinics, doctors,
          q, kpi, trend, heat>>

-----------------------------------------------------------------------------
(* Bounds of the model *)

MaxRows == 3
MaxFilterRows == 2
MaxNormRows == 1
Today == 100

(* Program constants *)

AVG_VISIT_VALUE == 200
MONTHLY_FEE == 100
Last7Back == 6
Last30Back == 29
Last90Back == 89

-----------------------------------------------------------------------------
(* Text *)

LowerLetters == <<"a","b","c","d","e","f","g","h","i","j","k","l","m",
                  "n","o","p","q","r","s","t","u","v","w","x","y","z">>
UpperLetters == <<"A","B","C","D","E","F","G","H","I","J","K","L","M",
                  "N","O","P","Q","R","S","T","U","V","W","X","Y","Z">>
Digits == <<"0","1","2","3","4","5","6","7","8","9">>

IndexIn(seq, c) ==
    IF \E i \in DOMAIN seq : seq[i] = c
    THEN CHOOSE i \in DOMAIN seq : seq[i] = c
    ELSE 0

LowerChar(c) ==
    IF IndexIn(UpperLetters, c) # 0 THEN LowerLetters[IndexIn(UpperLetters, c)] ELSE c

UpperChar(c) ==
    IF IndexIn(LowerLetters, c) # 0 THEN UpperLetters[IndexIn(LowerLetters, c)] ELSE c

\* str.lower()
StrLower(s) == [i \in DOMAIN s |-> LowerChar(s[i])]

\* str.upper()
StrUpper(s) == [i \in DOMAIN s |-> UpperChar(s[i])]

\* str.slice(0, n)
StrSlice(s, n) == SubSeq(s, 1, IF Len(s) < n THEN Len(s) ELSE n)

RECURSIVE IntToStr(_)
\* str(n) of a non-negative int
IntToStr(n) ==
    IF n < 10 THEN <<Digits[n + 1]>>
    ELSE IntToStr(n \div 10) \o <<Digits[(n % 10) + 1]>>

-----------------------------------------------------------------------------
(* Cells of the sheet, as gspread's get_all_records returns them: text      *)
(* (a blank cell is the empty text), a number, or an ISO timestamp text    *)
(* kept in parsed form (day since the epoch, hour of the day).             *)

StrCell(s) == [kind |-> "str", s |-> s, n |-> 0, day |-> 0, hour |-> 0]
IntCell(n) == [kind |-> "int", s |-> <<>>, n |-> n, day |-> 0, hour |-> 0]
IsoCell(d, h) == [kind |-> "iso", s |-> <<>>, n |-> 0, day |-> d, hour |-> h]

\* the value None / NaN: what row.get(col, None) gives for a column that is absent
NoneCell == [kind |-> "none", s |-> <<>>, n |-> 0, day |-> 0, hour |-> 0]

Blank == StrCell(<<>>)

\* astype(str) / str(value)
AsStr(c) ==
    CASE c.kind = "str" -> c.s
      [] c.kind = "int" -> IntToStr(c.n)
      [] c.kind = "none" -> <<"N","o","n","e">>
      [] OTHER -> <<"i","s","o">>

\* pd.notna(value)
NotNa(c) == c.kind # "none"

-----------------------------------------------------------------------------
(* Literals of the source *)

T_true == <<"t","r","u","e">>
T_1 == <<"1">>
T_yes == <<"y","e","s">>
TruthTokens == {T_true, T_1, T_yes}

E_SLOT_UNAVAILABLE == <<"S","L","O","T","_","U","N","A","V","A","I","L","A","B","L","E">>
E_SLOT_BUSY == <<"S","L","O","T","_","B","U","S","Y">>
E_SLOT_CLOSED == <<"S","L","O","T","_","C","L","O","S","E","D">>

Outcomes == {"BOOKED", "SLOT_UNAVAILABLE", "CLOSED", "OTHER"}

-----------------------------------------------------------------------------
(* load_data: the transformations *)

NaT == [valid |-> FALSE, day |-> 0, hour |-> 0, raised |-> FALSE]

ToDatetimeRaise(c) ==
    IF c.kind = "iso"
    THEN [valid |-> TRUE, day |-> c.day, hour |-> c.hour, raised |-> FALSE]
    ELSE [valid |-> FALSE, day |-> 0, hour |-> 0, raised |-> TRUE]

\* pd.to_datetime(value, errors="coerce", utc=True): unparseable text gives NaT
ToDatetime(c) ==
    IF c.kind = "iso"
    THEN [valid |-> TRUE, day |-> c.day, hour |-> c.hour, raised |-> FALSE]
    ELSE NaT

\* .dt.date
DtDate(ts) == [valid |-> ts.valid, day |-> ts.day]

\* .dt.hour
DtHour(ts) == [valid |-> ts.valid, hour |-> ts.hour]

\* day_name() of a day counted from 1970-01-01, a Thursday
DayNames == << <<"T","h","u","r","s","d","a","y">>,
               <<"F","r","i","d","a","y">>,
               <<"S","a","t","u","r","d","a","y">>,
               <<"S","u","n","d","a","y">>,
               <<"M","o","n","d","a","y">>,
               <<"T","u","e","s","d","a","y">>,
               <<"W","e","d","n","e","s","d","a","y">> >>

DayName(day) == DayNames[(day % 7) + 1]

\* .dt.day_name().str.slice(0, 3)
DtWeekday(ts) ==
    [valid |-> ts.valid, s |-> IF ts.valid THEN StrSlice(DayName(ts.day), 3) ELSE <<>>]

CoerceSuccessNoLower(c) == AsStr(c) \in TruthTokens

\* df["success"].astype(str).str.lower().isin(["true", "1", "yes"])
CoerceSuccess(c) == StrLower(AsStr(c)) \in TruthTokens

\* row.get(col, default)
RowGet(r, col, default) == IF col \in DOMAIN r THEN r[col] ELSE default

\* lines 120-125 of outcome(row)
ClassifyError(c) ==
    LET ec == StrUpper(AsStr(c))
    IN  IF ec \in {E_SLOT_UNAVAILABLE, E_SLOT_BUSY} THEN "SLOT_UNAVAILABLE"
        ELSE IF ec = E_SLOT_CLOSED THEN "CLOSED"
        ELSE "OTHER"

\* outcome(row), row["success"] being the coerced flag
outcome(success, r) ==
    IF success /\ NotNa(RowGet(r, "booking_id", NoneCell))
    THEN "BOOKED"
    ELSE ClassifyError(RowGet(r, "error_code", Blank))

DerivedColsAlwaysOutcome(c) ==
    (IF "ts_utc" \in c THEN {"date", "hour", "weekday"} ELSE {}) \cup {"outcome"}

\* the columns load_data adds
DerivedCols(c) ==
    (IF "ts_utc" \in c THEN {"date", "hour", "weekday"} ELSE {})
    \cup (IF "success" \in c THEN {"outcome"} ELSE {})

\* one row of df after the transformations
NormRow(r) ==
    [c \in DOMAIN r \cup DerivedCols(DOMAIN r) |->
        CASE c = "ts_utc" -> ToDatetime(r["ts_utc"])
          [] c = "date" -> DtDate(ToDatetime(r["ts_utc"]))
          [] c = "hour" -> DtHour(ToDatetime(r["ts_utc"]))
          [] c = "weekday" -> DtWeekday(ToDatetime(r["ts_utc"]))
          [] c = "success" -> CoerceSuccess(r["success"])
          [] c = "outcome" ->
                outcome(IF "success" \in DOMAIN r THEN CoerceSuccess(r["success"]) ELSE FALSE, r)
          [] OTHER -> r[c]]

\* to_datetime raised on some row: load_data fails as a whole
LoadRaises(rs) ==
    \E i \in DOMAIN rs :
        "ts_utc" \in DOMAIN rs[i] /\ ToDatetime(rs[i]["ts_utc"]).raised

-----------------------------------------------------------------------------
(* Sidebar *)

RangeChoices == {"Today", "Last 7 days", "Last 30 days", "Last 90 days"}

\* get_date_range(choice): <<start_date, end_date>>
get_date_range(choice) ==
    CASE choice = "Today" -> <<Today, Today>>
      [] choice = "Last 7 days" -> <<Today - Last7Back, Today>>
      [] choice = "Last 30 days" -> <<Today - Last30Back, Today>>
      [] choice = "Last 90 days" -> <<Today - Last90Back, Today>>
      [] OTHER -> <<Today - Last7Back, Today>>

\* df[col].dropna().unique() if col in df.columns else []
Options(frame, fcols, col) ==
    IF col \in fcols THEN {frame[i].v[col] : i \in DOMAIN frame} ELSE {}

-----------------------------------------------------------------------------
(* Filters *)

\* date >= bound on an object column: a null element compares False
DateGe(d, x) == d.valid /\ d.day >= x
DateLe(d, x) == d.valid /\ d.day <= x

DateInRangeStrict(d, lo, hi) == d.valid /\ d.day > lo /\ d.day < hi

\* (q["date"] >= start_date) & (q["date"] <= end_date)
DateInRange(d, lo, hi) == DateGe(d, lo) /\ DateLe(d, hi)

\* q[q[col].isin(chosen)]
IsinFilter(frame, col, chosen) ==
    SelectSeq(frame, LAMBDA x : x.v[col] \in chosen)

ApplyFiltersDropHead(frame, fcols, choice, cl, dr) ==
    LET q1 == IF "date" \in fcols
              THEN SelectSeq(frame, LAMBDA x :
                       DateInRange(x.v["date"], get_date_range(choice)[1],
                                   get_date_range(choice)[2]))
              ELSE frame
        q2 == IF cl # {} THEN IsinFilter(q1, "clinic_name", cl) ELSE q1
        q3 == IF dr # {} THEN IsinFilter(q2, "doctor", dr) ELSE q2
    IN  IF q3 = <<>> THEN q3 ELSE Tail(q3)

\* lines 173-179
ApplyFilters(frame, fcols, choice, cl, dr) ==
    LET q1 == IF "date" \in fcols
              THEN SelectSeq(frame, LAMBDA x :
                       DateInRange(x.v["date"], get_date_range(choice)[1],
                                   get_date_range(choice)[2]))
              ELSE frame
        q2 == IF cl # {} THEN IsinFilter(q1, "clinic_name", cl) ELSE q1
        q3 == IF dr # {} THEN IsinFilter(q2, "doctor", dr) ELSE q2
    IN  q3

-----------------------------------------------------------------------------
(* Banner and KPI cards *)

\* number of rows of a frame satisfying P
CountRows(frame, P(_)) == Cardinality({i \in DOMAIN frame : P(frame[i])})

\* the guard `"outcome" in q.columns` of line 186
HasOutcome(fcols) == "outcome" \in fcols

\* (q["outcome"] == "BOOKED").sum()
BookedCount(frame) == CountRows(frame, LAMBDA x : x.v["outcome"] = "BOOKED")

\* a float kept exact, as numerator over denominator
Ratio(a, b) == [num |-> a, den |-> b]
Zero == Ratio(0, 1)

\* q["success"].mean() * 100
SuccessMeanPct(frame) ==
    Ratio(CountRows(frame, LAMBDA x : x.v["success"]) * 100, Len(frame))

CallHandlingPctOverAll(frame, fcols, nAll) ==
    IF "success" \in fcols /\ Len(frame) # 0
    THEN Ratio(CountRows(frame, LAMBDA x : x.v["success"]) * 100, nAll)
    ELSE Zero

\* line 203; nAll is the number of rows of df
CallHandlingPct(frame, fcols, nAll) ==
    IF "success" \in fcols /\ Len(frame) # 0 THEN SuccessMeanPct(frame) ELSE Zero

NoKpi == [served_count |-> 0, booked |-> 0, recovered_revenue |-> 0, net_roi |-> 0,
          calls_received |-> 0, call_handling_pct |-> Zero]

-----------------------------------------------------------------------------
(* Charts *)

SetMin(S) == CHOOSE m \in S : \A x \in S : m <= x

RECURSIVE Ascending(_)
\* the group keys in sorted order (groupby sorts its keys)
Ascending(S) ==
    IF S = {} THEN <<>>
    ELSE <<SetMin(S)>> \o Ascending(S \ {SetMin(S)})

\* groupby("date") drops the null keys
DateKeys(frame) == {frame[i].v["date"].day : i \in {j \in DOMAIN frame : frame[j].v["date"].valid}}

TrendPoint(frame, d) ==
    [date |-> d,
     attempts |-> CountRows(frame, LAMBDA x : x.v["date"].valid /\ x.v["date"].day = d),
     booked |-> CountRows(frame, LAMBDA x :
                    x.v["date"].valid /\ x.v["date"].day = d /\ x.v["outcome"] = "BOOKED")]

TrendFramePerRow(frame, fcols) ==
    IF {"outcome", "date"} \subseteq fcols
    THEN [i \in DOMAIN frame |->
             [date |-> frame[i].v["date"].day, attempts |-> 1,
              booked |-> IF frame[i].v["outcome"] = "BOOKED" THEN 1 ELSE 0]]
    ELSE <<>>

\* lines 224-228
TrendFrame(frame, fcols) ==
    IF {"outcome", "date"} \subseteq fcols
    THEN LET keys == Ascending(DateKeys(frame))
         IN  [k \in DOMAIN keys |-> TrendPoint(frame, keys[k])]
    ELSE <<>>

W_Mon == <<"M","o","n">>
W_Tue == <<"T","u","e">>
W_Wed == <<"W","e","d">>
W_Thu == <<"T","h","u">>
W_Fri == <<"F","r","i">>
W_Sat == <<"S","a","t">>
W_Sun == <<"S","u","n">>
wk_order == <<W_Mon, W_Tue, W_Wed, W_Thu, W_Fri, W_Sat, W_Sun>>

\* rank of a (weekday, hour) key under sort_values(["weekday", "hour"]),
\* weekday being categorical in wk_order (a name outside it sorts last)
HeatRank(w, h) ==
    (IF IndexIn(wk_order, w) # 0 THEN IndexIn(wk_order, w) ELSE Len(wk_order) + 1) * 24 + h

HeatKeys(frame) ==
    {<<frame[i].v["weekday"].s, frame[i].v["hour"].hour>> :
        i \in {j \in DOMAIN frame : frame[j].v["weekday"].valid /\ frame[j].v["hour"].valid}}

RECURSIVE HeatOrder(_)
HeatOrder(K) ==
    IF K = {} THEN <<>>
    ELSE LET m == CHOOSE k \in K : \A x \in K : HeatRank(k[1], k[2]) <= HeatRank(x[1], x[2])
         IN  <<m>> \o HeatOrder(K \ {m})

\* lines 240-244
HeatFrame(frame, fcols) ==
    IF {"weekday", "hour"} \subseteq fcols
    THEN LET keys == HeatOrder(HeatKeys(frame))
         IN  [k \in DOMAIN keys |->
                [weekday |-> keys[k][1], hour |-> keys[k][2],
                 attempts |-> CountRows(frame, LAMBDA x :
                     x.v["weekday"].valid /\ x.v["hour"].valid
                     /\ x.v["weekday"].s = keys[k][1] /\ x.v["hour"].hour = keys[k][2])]]
    ELSE <<>>

-----------------------------------------------------------------------------
(* The script *)

\* lines 103-129 and 132-136
LoadData ==
    /\ pc = "start"
    /\ IF LoadRaises(rows)
       THEN /\ err' = "load_data"
            /\ pc' = "stopped"
            /\ UNCHANGED <<dfcols, df>>
       ELSE /\ dfcols' = cols \cup DerivedCols(cols)
            /\ df' = [i \in DOMAIN rows |-> [idx |-> i - 1, v |-> NormRow(rows[i])]]
            /\ pc' = "loaded"
            /\ err' = err
    /\ UNCHANGED <<cols, rows, range_choice, clinics, doctors, q, kpi, trend, heat>>

\* lines 155-170: the user's selections
Sidebar ==
    /\ pc = "loaded"
    /\ \E choice \in RangeChoices :
       \E cl \in SUBSET Options(df, dfcols, "clinic_name") :
       \E dr \in SUBSET Options(df, dfcols, "doctor") :
            /\ range_choice' = choice
            /\ clinics' = cl
            /\ doctors' = dr
    /\ pc' = "selected"
    /\ UNCHANGED <<cols, rows, err, dfcols, df, q, kpi, trend, heat>>

\* lines 173-179
Filter ==
    /\ pc = "selected"
    /\ q' = ApplyFilters(df, dfcols, range_choice, clinics, doctors)
    /\ pc' = "filtered"
    /\ UNCHANGED <<cols, rows, err, dfcols, df, range_choice, clinics, doctors,
                   kpi, trend, heat>>

\* lines 183-188 and 202-203
Kpis ==
    /\ pc = "filtered"
    /\ IF HasOutcome(dfcols) /\ "outcome" \notin dfcols
       THEN \* q["outcome"] raises KeyError
            /\ err' = "KeyError"
            /\ pc' = "stopped"
            /\ kpi' = kpi
       ELSE LET booked == IF HasOutcome(dfcols) THEN BookedCount(q) ELSE 0
                recovered_revenue == booked * AVG_VISIT_VALUE
            IN  /\ kpi' = [served_count |-> Len(q),
                           booked |-> booked,
                           recovered_revenue |-> recovered_revenue,
                           net_roi |-> recovered_revenue - MONTHLY_FEE,
                           calls_received |-> Len(q),
                           call_handling_pct |-> CallHandlingPct(q, dfcols, Len(df))]
                /\ pc' = "kpis"
                /\ err' = err
    /\ UNCHANGED <<cols, rows, dfcols, df, range_choice, clinics, doctors, q, trend, heat>>

\* lines 224-237
Trend ==
    /\ pc = "kpis"
    /\ trend' = TrendFrame(q, dfcols)
    /\ pc' = "trend"
    /\ UNCHANGED <<cols, rows, err, dfcols, df, range_choice, clinics, doctors, q, kpi, heat>>

\* lines 240-252
Heatmap ==
    /\ pc = "trend"
    /\ heat' = HeatFrame(q, dfcols)
    /\ pc' = "done"
    /\ UNCHANGED <<cols, rows, err, dfcols, df, range_choice, clinics, doctors, q, kpi, trend>>

Next == LoadData \/ Sidebar \/ Filter \/ Kpis \/ Trend \/ Heatmap

-----------------------------------------------------------------------------
(* Sheets *)

\* the rows a sheet with the columns cs can hold
SheetRows(cs, Cells) ==
    {f \in [cs -> UNION {Cells[x] : x \in cs}] : \A x \in cs : f[x] \in Cells[x]}

\* every sheet with some of the candidate columns and up to maxRows records;
\* get_all_records of a sheet without records is [], a frame without columns
Sheets(Candidates, Cells, maxRows) ==
    {[c |-> {}, r |-> <<>>]} \cup
    UNION {UNION {{[c |-> cs, r |-> rs] : rs \in [1..n -> SheetRows(cs, Cells)]}
                  : n \in 1..maxRows} : cs \in (SUBSET Candidates) \ {{}}}

InitOn(S) ==
    /\ \E sheet \in S : cols = sheet.c /\ rows = sheet.r
    /\ pc = "start"
    /\ err = "none"
    /\ dfcols = {}
    /\ df = <<>>
    /\ range_choice = "Last 7 days"
    /\ clinics = {}
    /\ doctors = {}
    /\ q = <<>>
    /\ kpi = NoKpi
    /\ trend = <<>>
    /\ heat = <<>>

Garbage == StrCell(<<"n","/","a">>)

\* sheets for the aggregation views: timestamps inside and outside the ranges,
\* a malformed one, success flags and booking ids
AggCells ==
    [x \in {"ts_utc", "success", "booking_id"} |->
        CASE x = "ts_utc" -> {Garbage, IsoCell(Today, 9), IsoCell(Today - Last7Back, 23),
                              IsoCell(Today - Last90Back - 1, 0)}
          [] x = "success" -> {StrCell(<<"y","e","s">>), StrCell(<<"n","o">>)}
          [] OTHER -> {StrCell(<<"B","7">>)}]

Init == InitOn(Sheets({"ts_utc", "success", "booking_id"}, AggCells, MaxRows))

Spec == Init /\ [][Next]_vars

\* sheets for the filters: timestamps, clinics and doctors
FilterCells ==
    [x \in {"ts_utc", "clinic_name", "doctor"} |->
        CASE x = "ts_utc" -> {Blank, IsoCell(Today - Last7Back, 23),
                              IsoCell(Today - Last90Back - 1, 0)}
          [] x = "clinic_name" -> {StrCell(<<"N">>), StrCell(<<"S">>)}
          [] OTHER -> {StrCell(<<"K">>), StrCell(<<"L">>)}]

InitFilter == InitOn(Sheets({"ts_utc", "clinic_name", "doctor"}, FilterCells, MaxFilterRows))

SpecFilter == InitFilter /\ [][Next]_vars

\* sheets for the classification: success tokens, booking ids, error codes
NormCells ==
    [x \in {"success", "booking_id", "error_code"} |->
        CASE x = "success" -> {StrCell(<<"T","R","U","E">>), StrCell(<<"Y","e","s">>),
                               IntCell(1), Blank, StrCell(<<"n","o">>)}
          [] x = "booking_id" -> {Blank, StrCell(<<"A","1">>)}
          [] OTHER -> {Blank, StrCell(<<"s","l","o","t","_","b","u","s","y">>),
                       StrCell(E_SLOT_UNAVAILABLE),
                       StrCell(<<"S","l","o","t","_","C","l","o","s","e","d">>),
                       StrCell(<<"T","I","M","E","O","U","T">>)}]

InitNorm == InitOn(Sheets({"success", "booking_id", "error_code"}, NormCells, MaxNormRows))

SpecNorm == InitNorm /\ [][Next]_vars

-----------------------------------------------------------------------------
(* Properties *)

Loaded == pc \in {"loaded", "selected", "filtered", "kpis", "trend", "done"}
Filtered == pc \in {"filtered", "kpis", "trend", "done"}
KpisDone == pc \in {"kpis", "trend", "done"}
TrendDone == pc \in {"trend", "done"}

\* two texts equal up to letter case
EqIgnoreCase(a, b) ==
    Len(a) = Len(b) /\ \A i \in 1..Len(a) : LowerChar(a[i]) = LowerChar(b[i])

\* row i of df is among the filtered rows
InQ(i) == \E j \in DOMAIN q : q[j].idx = df[i].idx

\* the coerced success flag of row i (false when there is no such column)
Flag(i) == "success" \in DOMAIN df[i].v /\ df[i].v["success"]

\* the booking id of raw row i is present and not empty
HasBookingId(i) == "booking_id" \in cols /\ AsStr(rows[i]["booking_id"]) # <<>>

\* the outcome the error-code rules give raw row i
ByErrorCode(i) ==
    LET ec == IF "error_code" \in cols THEN AsStr(rows[i]["error_code"]) ELSE <<>>
    IN  IF EqIgnoreCase(ec, E_SLOT_UNAVAILABLE) \/ EqIgnoreCase(ec, E_SLOT_BUSY)
        THEN "SLOT_UNAVAILABLE"
        ELSE IF EqIgnoreCase(ec, E_SLOT_CLOSED) THEN "CLOSED" ELSE "OTHER"

\* C1: a row is classified BOOKED if and only if its coerced success flag is
\* true and its booking id is present and non-empty.
C1_BookedIffSuccessAndBookingId ==
    Loaded /\ "success" \in cols =>
        \A i \in DOMAIN df :
            (df[i].v["outcome"] = "BOOKED") <=> (Flag(i) /\ HasBookingId(i))

\* C2: with a success column, a row that does not satisfy the BOOKED condition
\* gets the outcome its upper-cased error code decides, and every outcome is
\* one of the four values.
C2_ErrorCodeDecidesOutcome ==
    Loaded /\ "success" \in cols =>
        \A i \in DOMAIN df :
            /\ df[i].v["outcome"] \in Outcomes
            /\ ~(Flag(i) /\ HasBookingId(i)) => df[i].v["outcome"] = ByErrorCode(i)

C4_SuccessCoercion ==
    Loaded /\ "success" \in cols =>
        \A i \in DOMAIN df :
            /\ df[i].v["success"] \in BOOLEAN
            /\ df[i].v["success"] <=>
                  \E t \in TruthTokens : EqIgnoreCase(AsStr(rows[i]["success"]), t)

C4_Witness ==
    /\ pc = "loaded"
    /\ "success" \in cols
    /\ Len(rows) = 1
    /\ rows[1]["success"] = StrCell(<<"Y","e","s">>)
    /\ df[1].v["success"] = TRUE

\* row i passes the clinic and doctor restrictions
PassesNames(i) ==
    /\ clinics = {} \/ df[i].v["clinic_name"] \in clinics
    /\ doctors = {} \/ df[i].v["doctor"] \in doctors

\* C5: with a timestamp column, a record whose date is absent is kept by the
\* date-range step; only the clinic or doctor restriction removes it.
C5_AbsentDateExempt ==
    Filtered /\ "ts_utc" \in cols =>
        \A i \in DOMAIN df :
            ~df[i].v["date"].valid /\ PassesNames(i) => InQ(i)

C7_FilterIdempotent ==
    Filtered => ApplyFilters(q, dfcols, range_choice, clinics, doctors) = q

C7_Witness ==
    /\ pc = "filtered"
    /\ Len(df) = 2
    /\ Len(q) = 1
    /\ clinics # {}
    /\ "date" \in dfcols

\* the filtered rows that carry an outcome equal to o
WithOutcome(o) ==
    {j \in DOMAIN q : "outcome" \in DOMAIN q[j].v /\ q[j].v["outcome"] = o}

\* the filtered rows whose success flag is defined, and those where it is true
SuccessDefined == {j \in DOMAIN q : "success" \in DOMAIN q[j].v}
SuccessTrue == {j \in SuccessDefined : q[j].v["success"]}

\* C8: recordCount is the number of filtered records, bookedCount the number of
\* them with outcome BOOKED, successRatePct 100 * (success true) / (success
\* defined), revenue bookedCount * avgVisitValue, netRoi revenue - monthlyFee;
\* on an empty filtered collection these are 0, 0, 0, 0 and -monthlyFee.
C8_Kpis ==
    KpisDone =>
        /\ kpi.served_count = Len(q)
        /\ kpi.calls_received = Len(q)
        /\ kpi.booked = Cardinality(WithOutcome("BOOKED"))
        /\ kpi.call_handling_pct.den > 0
        /\ IF SuccessDefined # {}
           THEN kpi.call_handling_pct.num * Cardinality(SuccessDefined)
                    = 100 * Cardinality(SuccessTrue) * kpi.call_handling_pct.den
           ELSE kpi.call_handling_pct.num = 0
        /\ kpi.recovered_revenue = kpi.booked * AVG_VISIT_VALUE
        /\ kpi.net_roi = kpi.recovered_revenue - MONTHLY_FEE
        /\ q = <<>> =>
              /\ kpi.served_count = 0 /\ kpi.booked = 0
              /\ kpi.call_handling_pct.num = 0
              /\ kpi.recovered_revenue = 0
              /\ kpi.net_roi = 0 - MONTHLY_FEE

C8_Witness ==
    /\ pc = "kpis"
    /\ Len(df) = 3
    /\ Len(q) = 2
    /\ kpi.booked = 1
    /\ kpi.call_handling_pct = Ratio(100, 2)
    /\ kpi.net_roi = AVG_VISIT_VALUE - MONTHLY_FEE

\* the filtered rows with a defined date
Dated == {j \in DOMAIN q : "date" \in DOMAIN q[j].v /\ q[j].v["date"].valid}

RECURSIVE SumAttempts(_, _)
SumAttempts(t, n) == IF n = 0 THEN 0 ELSE t[n].attempts + SumAttempts(t, n - 1)

\* one point per distinct date, dates strictly ascending, attempts and booked
\* counted per date, attempts summing to the number of dated records
TrendIsGrouped ==
    /\ \A j \in Dated : \E k \in DOMAIN trend : trend[k].date = q[j].v["date"].day
    /\ \A k \in DOMAIN trend : \E j \in Dated : trend[k].date = q[j].v["date"].day
    /\ \A k, l \in DOMAIN trend : k < l => trend[k].date < trend[l].date
    /\ \A k \in DOMAIN trend :
          /\ trend[k].attempts =
                Cardinality({j \in Dated : q[j].v["date"].day = trend[k].date})
          /\ trend[k].booked =
                Cardinality({j \in Dated \cap WithOutcome("BOOKED") :
                                q[j].v["date"].day = trend[k].date})
    /\ SumAttempts(trend, Len(trend)) = Cardinality(Dated)
    /\ q = <<>> => trend = <<>>

C10_NoErrorState ==
    /\ err = "none"
    /\ pc # "stopped"
    /\ pc # "done" => ENABLED Next
    /\ Loaded =>
          /\ Len(df) = Len(rows)
          /\ "ts_utc" \in cols =>
                \A i \in DOMAIN rows :
                    IF rows[i]["ts_utc"].kind = "iso"
                    THEN /\ df[i].v["ts_utc"].valid
                         /\ df[i].v["date"].day = rows[i]["ts_utc"].day
                         /\ df[i].v["hour"].hour = rows[i]["ts_utc"].hour
                    ELSE ~df[i].v["ts_utc"].valid /\ ~df[i].v["date"].valid
    /\ Filtered /\ "ts_utc" \in cols =>
          \A i \in DOMAIN df :
              /\ df[i].v["date"].valid
              /\ get_date_range(range_choice)[1] <= df[i].v["date"].day
              /\ df[i].v["date"].day <= get_date_range(range_choice)[2]
              => InQ(i)
    /\ KpisDone =>
          /\ kpi.served_count = Len(q)
          /\ "outcome" \notin dfcols => kpi.booked = 0
          /\ "success" \notin dfcols => kpi.call_handling_pct.num = 0
    /\ TrendDone /\ ~({"outcome", "date"} \subseteq dfcols) => trend = <<>>
    /\ pc = "done" /\ ~({"weekday", "hour"} \subseteq dfcols) => heat = <<>>
    /\ pc = "done" /\ {"weekday", "hour"} \subseteq dfcols =>
          SumAttempts(heat, Len(heat)) = Len(q)

C10_Witness ==
    /\ pc = "done"
    /\ cols = {"ts_utc", "success"}
    /\ Len(rows) = 2
    /\ rows[1]["ts_utc"] = Garbage
    /\ rows[2]["ts_utc"].kind = "iso"
    /\ Len(q) = 1
    /\ Len(trend) = 1
    /\ Len(heat) = 1

====
